---- MODULE Spec2Model ----
(***************************************************************************)
(* State machine of SnakeGame (src/game.py): the grid, the snake, the      *)
(* food, the score and the frame counter, driven by reset() and            *)
(* step(action).  Positions are pairs <<x, y>>; the snake is a sequence    *)
(* with the head first.  Rewards are kept in hundredths so that -0.01 is   *)
(* the integer -1 and +10 / -10 are 1000 / -1000.                          *)
(***************************************************************************)
EXTENDS Integers, Sequences, FiniteSets, TLC

VARIABLES
    grid_width,       \* self.grid_width
    grid_height,      \* self.grid_height
    snake_direction,  \* self.snake_direction
    head,             \* self.head
    snake,            \* self.snake, head first
    score,            \* self.score
    food,             \* self.food
    game_over,        \* self.game_over
    frame_iteration,  \* self.frame_iteration
    pc,               \* "idle" between calls, "place_food" inside a placement loop that cannot exit
    ret,              \* reward, done and info of the last completed call (its observation is Observation)
    after_done        \* step() calls made from the first one that returned done=true on, 0 in a running episode

vars == << grid_width, grid_height, snake_direction, head, snake, score, food,
           game_over, frame_iteration, pc, ret, after_done >>

----------------------------------------------------------------------------
(* Bounds of the model *)

\* Spec explores at most this many step() calls in one episode
MaxFrames == 8

\* SpecLong explores at most this many step() calls in one episode
MaxFramesLong == 403

\* SpecEpisode explores at most this many step() calls in one episode
MaxFramesEpisode == 905

\* step() is explored up to this many calls from the first done=true return on
MaxAfterDone == 2

----------------------------------------------------------------------------
(* Program constants *)

\* frame_iteration > 100 * len(self.snake)
TIMEOUT_FACTOR == 100

\* reward = 10, in hundredths
REWARD_FOOD == 1000

\* reward = -10, in hundredths
REWARD_DEATH == -1000

\* reward = -0.01, in hundredths
REWARD_STEP == -1

\* reward = 0, the initial value inside step()
REWARD_NONE == 0

\* class Direction(Enum)
Direction == {"RIGHT", "LEFT", "UP", "DOWN"}

\* DirectionValue in the order of the danger block: RIGHT, DOWN, LEFT, UP
DirectionValueDangerOrder(d) ==
    CASE d = "RIGHT" -> 0
      [] d = "DOWN"  -> 1
      [] d = "LEFT"  -> 2
      [] d = "UP"    -> 3

\* Direction.<name>.value
DirectionValue(d) ==
    CASE d = "RIGHT" -> 0
      [] d = "LEFT"  -> 1
      [] d = "UP"    -> 2
      [] d = "DOWN"  -> 3

\* constructor arguments (width, height, grid_size) of Spec: grids 4 x 2 and 5 x 3
Configs == { [width |-> 80, height |-> 40, grid_size |-> 20],
             [width |-> 100, height |-> 60, grid_size |-> 20] }

\* constructor arguments of SpecLong: the grid 4 x 2
LongConfig == [width |-> 80, height |-> 40, grid_size |-> 20]

\* the default constructor arguments, SnakeGame(): the grid 32 x 24
DefaultConfig == [width |-> 640, height |-> 480, grid_size |-> 20]

\* action values handed to step(): 0..3 and one value on each side of the range
Actions == -1 .. 4

----------------------------------------------------------------------------
(* Helpers of the game logic *)

\* the cells random.randint(0, grid_width - 1) x random.randint(0, grid_height - 1) can draw
Cells(gw, gh) == (0 .. (gw - 1)) \X (0 .. (gh - 1))

\* the elements of the list sn
Segments(sn) == { sn[i] : i \in 1 .. Len(sn) }

\* sn[1:]
Rest(sn) == SubSeq(sn, 2, Len(sn))

\* InitialHead with the centre taken one cell short
InitialHeadOffByOne(gw, gh) == << (gw - 1) \div 2, gh \div 2 >>

\* the snake built by reset(): head at the centre, body to the left
InitialHead(gw, gh) == << gw \div 2, gh \div 2 >>

\* InitialSnake with the body laid out to the right of the head
InitialSnakeMirrored(gw, gh) ==
    LET h == InitialHead(gw, gh)
    IN  << h, << h[1] + 1, h[2] >>, << h[1] + 2, h[2] >> >>

InitialSnake(gw, gh) ==
    LET h == InitialHead(gw, gh)
    IN  << h, << h[1] - 1, h[2] >>, << h[1] - 2, h[2] >> >>

\* PlaceFood that takes the first draw, without the rejection test
PlaceFoodNoRejection(sn, gw, gh) == Cells(gw, gh)

\* the cells on which the loop of _place_food can stop
PlaceFood(sn, gw, gh) == Cells(gw, gh) \ Segments(sn)

\* directions[action] in _move
directions(action) ==
    CASE action = 0 -> "RIGHT"
      [] action = 1 -> "LEFT"
      [] action = 2 -> "UP"
      [] action = 3 -> "DOWN"

\* the dictionary opposites in _move
opposites(d) ==
    CASE d = "RIGHT" -> "LEFT"
      [] d = "LEFT"  -> "RIGHT"
      [] d = "UP"    -> "DOWN"
      [] d = "DOWN"  -> "UP"

\* MoveDirection without the range check, the index wrapping as a Python list index does
MoveDirectionWrapIndex(current_direction, action) ==
    IF directions(action % 4) # opposites(current_direction)
    THEN directions(action % 4)
    ELSE current_direction

\* MoveDirection without the guard against 180-degree turns
MoveDirectionNoGuard(current_direction, action) ==
    IF 0 <= action /\ action <= 3 THEN directions(action) ELSE current_direction

\* the direction _move leaves in self.snake_direction
MoveDirection(current_direction, action) ==
    IF 0 <= action /\ action <= 3
    THEN IF directions(action) # opposites(current_direction)
         THEN directions(action)
         ELSE current_direction
    ELSE current_direction

\* the head _move leaves in self.head
MoveHead(h, d) ==
    CASE d = "RIGHT" -> << h[1] + 1, h[2] >>
      [] d = "LEFT"  -> << h[1] - 1, h[2] >>
      [] d = "DOWN"  -> << h[1], h[2] + 1 >>
      [] d = "UP"    -> << h[1], h[2] - 1 >>

\* OutOfBounds with > in place of >= on the far walls
OutOfBoundsOffByOne(p, gw, gh) ==
    p[1] > gw \/ p[1] < 0 \/ p[2] > gh \/ p[2] < 0

\* the boundary test shared by _is_collision and _get_state
OutOfBounds(p, gw, gh) ==
    p[1] >= gw \/ p[1] < 0 \/ p[2] >= gh \/ p[2] < 0

\* _is_collision, on the snake with the new head already inserted
IsCollision(h, sn, gw, gh) ==
    \/ OutOfBounds(h, gw, gh)
    \/ h \in Segments(Rest(sn))

\* the terminal test of step() with the timeout half left out
IsTimeoutDisabled(fi, sn) == FALSE

\* IsTimeout with >= in place of >
IsTimeoutInclusive(fi, sn) == fi >= TIMEOUT_FACTOR * Len(sn)

\* the timeout half of the terminal test of step()
IsTimeout(fi, sn) == fi > TIMEOUT_FACTOR * Len(sn)

\* True -> 1, False -> 0 (np.array(state, dtype=int))
AsInt(b) == IF b THEN 1 ELSE 0

\* points_relative in _get_state: Right, Down, Left, Up
points_relative == << << 1, 0 >>, << 0, 1 >>, << -1, 0 >>, << 0, -1 >> >>

\* Danger that leaves the tail cell out, as if the tail had already moved away
DangerIgnoreTail(i, h, sn, gw, gh) ==
    LET point == << h[1] + points_relative[i][1], h[2] + points_relative[i][2] >>
    IN  IF OutOfBounds(point, gw, gh) THEN TRUE
        ELSE point \in Segments(SubSeq(sn, 2, Len(sn) - 1))

\* the danger flag of _get_state for the i-th relative point
Danger(i, h, sn, gw, gh) ==
    LET point == << h[1] + points_relative[i][1], h[2] + points_relative[i][2] >>
    IN  IF OutOfBounds(point, gw, gh) THEN TRUE
        ELSE point \in Segments(Rest(sn))

\* _get_state: danger + dir_one_hot + food_dir
GetState(h, sn, d, f, gw, gh) ==
    [ i \in 1 .. 12 |->
        IF i <= 4 THEN AsInt(Danger(i, h, sn, gw, gh))
        ELSE IF i <= 8 THEN AsInt(DirectionValue(d) = i - 5)
        ELSE IF i = 9  THEN AsInt(f[1] > h[1])
        ELSE IF i = 10 THEN AsInt(f[2] > h[2])
        ELSE IF i = 11 THEN AsInt(f[1] < h[1])
        ELSE AsInt(f[2] < h[2]) ]

\* the label table of get_action_space() and of the step() docstring
ActionLabel(action) ==
    CASE action = 0 -> "RIGHT"
      [] action = 1 -> "DOWN"
      [] action = 2 -> "LEFT"
      [] action = 3 -> "UP"

\* the observation a returning reset() or step() hands back: _get_state() on the state it leaves
Observation == GetState(head, snake, snake_direction, food, grid_width, grid_height)

----------------------------------------------------------------------------
(* Operations *)

\* reset(), on a grid gw x gh; also the tail of __init__ (op = "init")
ResetTo(gw, gh, op) ==
    LET sn == InitialSnake(gw, gh)
        h  == InitialHead(gw, gh)
    IN  /\ snake_direction' = "RIGHT"
        /\ head' = h
        /\ snake' = sn
        /\ score' = 0
        /\ IF PlaceFood(sn, gw, gh) = {}
           THEN \* the loop of _place_food never exits: reset() does not return
                /\ food' \in Cells(gw, gh)
                /\ pc' = "place_food"
                /\ UNCHANGED << game_over, frame_iteration, ret, after_done >>
           ELSE /\ food' \in PlaceFood(sn, gw, gh)
                /\ pc' = "idle"
                /\ game_over' = FALSE
                /\ frame_iteration' = 0
                /\ after_done' = 0
                /\ ret' = [ op |-> op, reward |-> REWARD_NONE, done |-> FALSE, score |-> 0 ]

\* SnakeGame.__init__ for the constructor arguments c
Construct(c) ==
    /\ grid_width = c.width \div c.grid_size
    /\ grid_height = c.height \div c.grid_size
    /\ snake_direction = "RIGHT"
    /\ head = InitialHead(grid_width, grid_height)
    /\ snake = InitialSnake(grid_width, grid_height)
    /\ score = 0
    /\ food \in PlaceFood(snake, grid_width, grid_height)
    /\ pc = "idle"
    /\ game_over = FALSE
    /\ frame_iteration = 0
    /\ after_done = 0
    /\ ret = [ op |-> "init", reward |-> REWARD_NONE, done |-> FALSE, score |-> 0 ]

Init == \E c \in Configs : Construct(c)

\* reset()
Reset ==
    /\ pc = "idle"
    /\ ResetTo(grid_width, grid_height, "reset")
    /\ UNCHANGED << grid_width, grid_height >>

\* the count of calls after a done=true return, over a call that returns done=false
AfterDone(n) == IF n = 0 THEN 0 ELSE n + 1

\* self.snake.pop()
Pop(sn) == SubSeq(sn, 1, Len(sn) - 1)

\* NextSnake that removes the tail on every call
NextSnakeAlwaysPop(sn, ate) == Pop(sn)

\* the snake step() leaves on a non-terminal call: the tail goes unless the food was eaten
NextSnake(sn, ate) == IF ate THEN sn ELSE Pop(sn)

\* TerminalSnake with the tail removed before the terminal return
TerminalSnakePopped(sn) == Pop(sn)

\* the snake step() leaves on a terminal call: it returns before the food check, so no pop
TerminalSnake(sn) == sn

\* NextScore that counts every non-terminal call
NextScoreAlways(s, ate) == s + 1

\* self.score after the food check of step()
NextScore(s, ate) == IF ate THEN s + 1 ELSE s

\* StepReward without the final "if reward == 0" replacement
StepRewardNoPenalty(ate) == IF ate THEN REWARD_FOOD ELSE REWARD_NONE

\* the reward step() resolves on a non-terminal call
StepReward(ate) ==
    LET reward == IF ate THEN REWARD_FOOD ELSE REWARD_NONE
    IN  IF reward = REWARD_NONE THEN REWARD_STEP ELSE reward

\* step(action)
Step(action) ==
    /\ pc = "idle"
    /\ LET fi  == frame_iteration + 1
           d   == MoveDirection(snake_direction, action)
           h   == MoveHead(head, d)
           sn  == << h >> \o snake
           ate == h = food
       IN  /\ frame_iteration' = fi
           /\ snake_direction' = d
           /\ head' = h
           /\ IF IsCollision(h, sn, grid_width, grid_height) \/ IsTimeout(fi, sn)
              THEN /\ snake' = TerminalSnake(sn)
                   /\ after_done' = after_done + 1
                   /\ ret' = [ op |-> "step", reward |-> REWARD_DEATH, done |-> TRUE,
                               score |-> score ]
                   /\ UNCHANGED << score, food, pc >>
              ELSE /\ snake' = NextSnake(sn, ate)
                   /\ score' = NextScore(score, ate)
                   /\ IF ate /\ PlaceFood(sn, grid_width, grid_height) = {}
                      THEN \* the loop of _place_food never exits: step() does not return
                           /\ food' \in Cells(grid_width, grid_height)
                           /\ pc' = "place_food"
                           /\ UNCHANGED << ret, after_done >>
                      ELSE /\ food' \in IF ate THEN PlaceFood(sn, grid_width, grid_height)
                                               ELSE { food }
                           /\ after_done' = AfterDone(after_done)
                           /\ ret' = [ op |-> "step", reward |-> StepReward(ate), done |-> FALSE,
                                       score |-> score' ]
                           /\ UNCHANGED pc
    /\ UNCHANGED << grid_width, grid_height, game_over >>

\* the calls the model explores: at most max_frames in one episode
Explored(max_frames) == frame_iteration < max_frames /\ after_done < MaxAfterDone

StepAny == \E action \in Actions : Explored(MaxFrames) /\ Step(action)

Next == Reset \/ StepAny

Spec == Init /\ [][Next]_vars

\* the 4 x 2 grid, with episodes long enough to run into the timeout
InitLong == Construct(LongConfig)

StepLong == \E action \in Actions : Explored(MaxFramesLong) /\ Step(action)

NextLong == Reset \/ StepLong

SpecLong == InitLong /\ [][NextLong]_vars

\* the default 32 x 24 grid driven by a fixed action sequence from construction
Script == << 0, 0, 0 >>

InitScenario == Construct(DefaultConfig)

StepScript == frame_iteration < Len(Script) /\ Step(Script[frame_iteration + 1])

NextScenario == StepScript

SpecScenario == InitScenario /\ [][NextScenario]_vars

\* a grid 3 cells wide, on which reset() lays the last segment at x = -1
NarrowConfig == [width |-> 60, height |-> 40, grid_size |-> 20]

InitNarrow == Construct(NarrowConfig)

StepNarrow == \E action \in Actions : Explored(MaxFrames) /\ Step(action)

NextNarrow == Reset \/ StepNarrow

SpecNarrow == InitNarrow /\ [][NextNarrow]_vars

\* the 4 x 2 grid, each episode followed from reset() to its first done=true
StepEpisode ==
    \E action \in Actions : frame_iteration < MaxFramesEpisode /\ after_done = 0 /\ Step(action)

NextEpisode == Reset \/ StepEpisode

SpecEpisode == InitLong /\ [][NextEpisode]_vars

----------------------------------------------------------------------------
(* Properties *)

\* a transition made by a call of step(), whether or not the call returns
StepCalled == frame_iteration' = frame_iteration + 1

\* a transition made by a call of step() that returned
StepReturned == StepCalled /\ pc' = "idle"

\* p lies in [0, grid_width) x [0, grid_height)
OnGrid(p) == 0 <= p[1] /\ p[1] < grid_width /\ 0 <= p[2] /\ p[2] < grid_height

\* C1: reward contract of step().  A returning step whose new head is on the
\* food cell and that does not end the episode returns reward 10 (1000
\* hundredths) with the score incremented by exactly 1 and done=false; a step
\* that ends the episode returns reward -10 with done=true; every other step
\* returns reward -0.01 with done=false and the score unchanged.
C1_RewardContract ==
    [][ StepReturned =>
          /\ (head' = food /\ ~ret'.done) =>
                 ret'.reward = 1000 /\ score' = score + 1 /\ ret'.score = score + 1
          /\ ret'.done => ret'.reward = -1000
          /\ (head' # food /\ ~ret'.done) => ret'.reward = -1 /\ score' = score
          /\ << ret'.reward, ret'.done >> \in
                 { << 1000, FALSE >>, << -1000, TRUE >>, << -1, FALSE >> } ]_vars

\* C1 witness: a step has eaten its second food on a snake that is still running
C1_Witness ==
    ret.op = "step" /\ ret.reward = 1000 /\ ~ret.done /\ ret.score = 2 /\ after_done = 0

\* C2: TERMINATED is absorbing.  While no reset() intervenes after a step()
\* that reported done=true, the last step() return is done=true.
C2_TerminatedAbsorbing == after_done > 0 => ret.done

\* C3: for every action a in 0..3 whose labelled direction (get_action_space)
\* is not the opposite of the current direction, the direction after step(a)
\* is the labelled direction.
C3_LabelsAgree ==
    [][ \A a \in 0 .. 3 :
          (Step(a) /\ ActionLabel(a) # opposites(snake_direction)) =>
              snake_direction' = ActionLabel(a) ]_vars

\* C4: after reset(), from whatever state it was called in, the snake has
\* exactly 3 segments, head at (grid_width \div 2, grid_height \div 2) and the
\* two others at head.x-1 and head.x-2 on the same row; direction RIGHT,
\* score 0, frame counter 0, not over; the food on a free cell.
C4_ResetState ==
    (ret.op = "reset" /\ pc = "idle") =>
        /\ Len(snake) = 3
        /\ head = << grid_width \div 2, grid_height \div 2 >>
        /\ snake[1] = head
        /\ snake[2] = << head[1] - 1, head[2] >>
        /\ snake[3] = << head[1] - 2, head[2] >>
        /\ snake_direction = "RIGHT"
        /\ score = 0
        /\ frame_iteration = 0
        /\ game_over = FALSE
        /\ after_done = 0
        /\ ret.done = FALSE /\ ret.score = 0
        /\ OnGrid(food) /\ food \notin { snake[1], snake[2], snake[3] }

\* C4 witness: reset() has returned
C4_Witness == ret.op = "reset" /\ pc = "idle" /\ Len(snake) = 3

\* C5: a returning step() reports done=true whenever the frame counter, this
\* call included, exceeds 100 x len(snake) with the new head counted; a step
\* without collision whose counter does not exceed it reports done=false.
C5_Timeout ==
    [][ StepReturned =>
          LET len == Len(snake) + 1
              collision == ~OnGrid(head') \/ (\E i \in 1 .. Len(snake) : snake[i] = head')
          IN  /\ frame_iteration' > 100 * len => ret'.done
              /\ (~collision /\ frame_iteration' <= 100 * len) => ~ret'.done ]_vars

\* C5 witness: a step has ended the episode by timeout alone
C5_Witness ==
    /\ ret.op = "step" /\ ret.done /\ after_done = 1
    /\ frame_iteration > 100 * Len(snake)
    /\ OnGrid(head)
    /\ \A i \in 2 .. Len(snake) : snake[i] # head

\* C6: a returning step() that is not timed out ends the episode exactly when
\* the new head is off the grid or equals a segment of the pre-move snake,
\* tail included; and a step that moves LEFT from a head at x = 0 reports
\* done=true and reward -10 and leaves the score as it was.
C6_Collision ==
    [][ StepReturned =>
          LET hit == ~OnGrid(head') \/ (\E i \in 1 .. Len(snake) : snake[i] = head')
          IN  /\ hit => ret'.done
              /\ (ret'.done /\ frame_iteration' <= 100 * (Len(snake) + 1)) => hit
              /\ (head[1] = 0 /\ snake_direction' = "LEFT") =>
                     /\ ret'.done /\ ret'.reward = -1000
                     /\ ret'.score = score /\ score' = score ]_vars

\* C6 witness: the first terminal step of an episode drove the head through the left wall
C6_Witness ==
    /\ ret.op = "step" /\ ret.done /\ after_done = 1
    /\ snake_direction = "LEFT" /\ head[1] = -1
    /\ ret.reward = -1000 /\ ret.score = score

\* C7: the direction after a step() is never the opposite of the direction
\* before it; an action that requests the opposite direction leaves the
\* direction as it was and the head advances one cell in that direction.
C7_NoReversal ==
    [][ StepCalled =>
          /\ ~(snake_direction = "RIGHT" /\ snake_direction' = "LEFT")
          /\ ~(snake_direction = "LEFT"  /\ snake_direction' = "RIGHT")
          /\ ~(snake_direction = "UP"    /\ snake_direction' = "DOWN")
          /\ ~(snake_direction = "DOWN"  /\ snake_direction' = "UP")
          /\ \A a \in 0 .. 3 :
                (Step(a) /\ directions(a) = opposites(snake_direction)) =>
                    /\ snake_direction' = snake_direction
                    /\ head' = CASE snake_direction = "RIGHT" -> << head[1] + 1, head[2] >>
                                 [] snake_direction = "LEFT"  -> << head[1] - 1, head[2] >>
                                 [] snake_direction = "DOWN"  -> << head[1], head[2] + 1 >>
                                 [] snake_direction = "UP"    -> << head[1], head[2] - 1 >> ]_vars

\* C7 witness: a running snake that has turned twice and now moves LEFT along
\* the top row, where the next call may request RIGHT
C7_Witness ==
    /\ ret.op = "step" /\ ~ret.done /\ after_done = 0
    /\ snake_direction = "LEFT" /\ head[2] = 0 /\ head[1] > 0

\* C8: in every state after reset() or after a step() that returned
\* done=false, the food cell is not a member of the snake.
C8_FoodOffSnake ==
    (pc = "idle" /\ ~ret.done) => \A i \in 1 .. Len(snake) : snake[i] # food

\* C9: on every returning step() with done=false exactly one of {food eaten,
\* tail removed} happens: the snake grows by one when the new head landed on
\* the food and keeps its length otherwise; no step() shortens the snake.
C9_EatOrPop ==
    [][ StepCalled =>
          /\ Len(snake') >= Len(snake)
          /\ (pc' = "idle" /\ ~ret'.done) =>
                 /\ (head' = food) =>
                        snake' = << head' >> \o snake /\ Len(snake') = Len(snake) + 1
                 /\ (head' # food) =>
                        /\ snake' = << head' >> \o SubSeq(snake, 1, Len(snake) - 1)
                        /\ Len(snake') = Len(snake) ]_vars

\* C9 witness: a running snake that has eaten once and has then moved on without eating
C9_Witness ==
    /\ ret.op = "step" /\ ~ret.done /\ after_done = 0
    /\ ret.reward = -1 /\ score = 1 /\ Len(snake) = 4

\* C10 as claimed: on the 32 x 24 grid the head starts at (16,12) and each of
\* the steps of [0,0,0] moves it one cell right with reward -0.01 and
\* done=false, whatever the food placement.
C10_ScenarioAnyFood ==
    /\ grid_width = 32 /\ grid_height = 24
    /\ head = << 16 + frame_iteration, 12 >>
    /\ ret.op = "step" => (ret.reward = -1 /\ ~ret.done)

\* C10 amended: the head starts at (16,12) and moves to (17,12), (18,12),
\* (19,12) with done=false on each step; the reward is -0.01 on each step
\* whose new head is not on the food cell and 10 on a step that reaches the
\* food (which the placement can put on any of these three cells).
C10_Scenario ==
    [][ /\ grid_width = 32 /\ grid_height = 24
        /\ (frame_iteration = 0 => head = << 16, 12 >>)
        /\ StepReturned =>
              /\ head' = << 16 + frame_iteration', 12 >>
              /\ ~ret'.done
              /\ ret'.reward = IF head' = food THEN 1000 ELSE -1 ]_vars

\* C10 witness: the third step has returned with the head at (19,12) and no food eaten
C10_Witness ==
    /\ frame_iteration = 3 /\ head = << 19, 12 >> /\ score = 0
    /\ ret.op = "step" /\ ret.reward = -1 /\ ~ret.done

C12_InvalidAction ==
    [][ \A a \in Actions \ (0 .. 3) :
          LET same == CASE snake_direction = "RIGHT" -> 0
                        [] snake_direction = "LEFT"  -> 1
                        [] snake_direction = "UP"    -> 2
                        [] snake_direction = "DOWN"  -> 3
          IN  /\ Step(a) <=> Step(same)
              /\ Step(a) =>
                    /\ snake_direction' = snake_direction
                    /\ frame_iteration' = frame_iteration + 1
                    /\ head' = CASE snake_direction = "RIGHT" -> << head[1] + 1, head[2] >>
                                 [] snake_direction = "LEFT"  -> << head[1] - 1, head[2] >>
                                 [] snake_direction = "DOWN"  -> << head[1], head[2] + 1 >>
                                 [] snake_direction = "UP"    -> << head[1], head[2] - 1 >>
                    /\ snake'[1] = head' ]_vars

\* C12 witness: a running snake has just gone straight UP, the move an
\* out-of-range action makes when the direction is UP
C12_Witness ==
    /\ ret.op = "step" /\ ~ret.done /\ after_done = 0
    /\ snake_direction = "UP"
    /\ snake[1] = << snake[2][1], snake[2][2] - 1 >>
    /\ snake[2] = << snake[3][1], snake[3][2] - 1 >>

\* C13: the terminal check runs before the food check.  A step() that returns
\* done=true returns reward -10, leaves score and food as they were and
\* leaves the whole pre-move snake behind the new head (no tail removed),
\* also when the new head lies on the food cell.
C13_TerminalBeforeFood ==
    [][ (StepReturned /\ ret'.done) =>
          /\ ret'.reward = -1000
          /\ score' = score /\ ret'.score = score
          /\ food' = food
          /\ snake' = << head' >> \o snake ]_vars

\* C13 witness: the first terminal step of an episode is a timeout, without
\* collision, on the very step whose head reaches the food
C13_Witness ==
    /\ ret.op = "step" /\ ret.done /\ after_done = 1
    /\ head = food /\ score = 0 /\ ret.reward = -1000
    /\ frame_iteration > 100 * Len(snake)
    /\ OnGrid(head)
    /\ \A i \in 2 .. Len(snake) : snake[i] # head

\* |x1 - x2| + |y1 - y2|
Manhattan(p, q) ==
    (IF p[1] >= q[1] THEN p[1] - q[1] ELSE q[1] - p[1])
  + (IF p[2] >= q[2] THEN p[2] - q[2] ELSE q[2] - p[2])

\* the segments of the snake are pairwise distinct
SegmentsDistinct == \A i, j \in 1 .. Len(snake) : i # j => snake[i] # snake[j]

\* every two consecutive segments of the snake are orthogonally adjacent
SegmentsAdjacent == \A i \in 1 .. Len(snake) - 1 : Manhattan(snake[i], snake[i + 1]) = 1

\* C14: in every state after reset() or after a step() that returned
\* done=false, the snake's segments are pairwise distinct and every two
\* consecutive segments are orthogonally adjacent.
C14_SnakeShape ==
    (pc = "idle" /\ ~ret.done) => (SegmentsDistinct /\ SegmentsAdjacent)

\* C15: on every grid with width and height at least 1, in every state after
\* reset() or after a step() that returned done=false, every snake segment
\* and the food lie on the grid.
C15_OnGrid ==
    (pc = "idle" /\ ~ret.done) =>
        /\ grid_width >= 1 /\ grid_height >= 1
        /\ \A i \in 1 .. Len(snake) : OnGrid(snake[i])
        /\ OnGrid(food)

\* C16: a step() changes the score only by +1, and only when it eats (its new
\* head is on the food and it does not return done=true); it changes the
\* food cell only when it eats; every step that does not eat, terminal ones
\* included, leaves food and score as they were.
C16_FoodAndScoreFrame ==
    [][ StepCalled =>
          LET eats == head' = food /\ ~(pc' = "idle" /\ ret'.done)
          IN  /\ score' >= score
              /\ eats => score' = score + 1
              /\ ~eats => (score' = score /\ food' = food)
              /\ pc' = "idle" => ret'.score = score' ]_vars

\* C16 witness: a running snake that ate twice has made a step without eating
C16_Witness ==
    /\ ret.op = "step" /\ ~ret.done /\ after_done = 0
    /\ ret.reward = -1 /\ score = 2 /\ ret.score = 2

\* C17: food placement has no capacity check.  A placement (in reset() or in
\* a step() that eats) returns, with the food on a cell free of the snake,
\* whenever some grid cell is free; a step() that eats and thereby makes the
\* snake cover every grid cell never returns (pc stays "place_food" and no
\* call follows); no other call fails to return.
C17_PlacementCapacity ==
    [][ /\ pc = "idle"
        /\ LET covered == \A c \in Cells(grid_width, grid_height) :
                              \E i \in 1 .. Len(snake') : snake'[i] = c
               placed  == IF StepCalled THEN score' = score + 1 ELSE TRUE
           IN  /\ (placed /\ ~covered) =>
                      /\ pc' = "idle"
                      /\ OnGrid(food')
                      /\ \A i \in 1 .. Len(snake') : snake'[i] # food'
               /\ (placed /\ covered) => pc' = "place_food"
               /\ ~placed => pc' = "idle" ]_vars

\* C17 witness: in an episode that never reported done=true, a step() has
\* eaten on the 4 x 2 grid, the snake covers all 8 cells and the call is
\* stuck in the placement loop
C17_Witness ==
    /\ pc = "place_food" /\ after_done = 0
    /\ grid_width = 4 /\ grid_height = 2
    /\ Len(snake) = 8 /\ score = 5
    /\ \A c \in Cells(grid_width, grid_height) : \E i \in 1 .. Len(snake) : snake[i] = c

\* C18: danger flags predict the step outcome.  For a returning step() that
\* is not timed out, taken from any state in which a call can be made, the
\* danger flag that the observation of the state before the step holds for
\* the direction the step moves in (0-based index 0=RIGHT, 1=DOWN, 2=LEFT,
\* 3=UP; never the opposite of the direction before) is 1 if and only if
\* the step ends the episode by collision.  Observation is 1-based.
C18_DangerPredicts ==
    [][ (StepReturned /\ frame_iteration' <= 100 * (Len(snake) + 1)) =>
          LET flag == CASE snake_direction' = "RIGHT" -> Observation[1]
                        [] snake_direction' = "DOWN"  -> Observation[2]
                        [] snake_direction' = "LEFT"  -> Observation[3]
                        [] snake_direction' = "UP"    -> Observation[4]
          IN  (flag = 1) <=> ret'.done ]_vars

\* C18 witness: a running snake has stepped into the cell its tail still held,
\* a cell the observation before the step flagged as dangerous, and the step
\* ended the episode
C18_Witness ==
    /\ ret.op = "step" /\ ret.done /\ after_done = 1
    /\ OnGrid(head)
    /\ head = snake[Len(snake)]
    /\ \A i \in 2 .. Len(snake) - 1 : snake[i] # head

\* C19: in every state after reset() or after a step() that returned
\* done=false, len(snake) = score + 3; in the state left by the first step()
\* of an episode that returned done=true, len(snake) = score + 4.
C19_LengthScore ==
    /\ (pc = "idle" /\ ~ret.done) => Len(snake) = score + 3
    /\ (pc = "idle" /\ ret.done /\ after_done = 1) => Len(snake) = score + 4

\* C20: every episode ends.  While no step() of the episode has returned
\* done=true, the snake is no longer than the number of grid cells and the
\* frame counter, which counts every step() since reset(), is at most
\* 100 x (grid_width x grid_height + 1); so done=true is reported by step
\* 100 x (grid_width x grid_height + 1) + 1 at the latest.
C20_EpisodeEnds ==
    (pc = "idle" /\ after_done = 0) =>
        /\ Len(snake) <= grid_width * grid_height
        /\ frame_iteration <= 100 * (grid_width * grid_height + 1)

\* C20 witness: an episode in which two meals postponed the timeout has still
\* been ended by it, at step 601, without a collision
C20_Witness ==
    /\ ret.op = "step" /\ ret.done /\ after_done = 1
    /\ score = 2 /\ frame_iteration = 601
    /\ OnGrid(head)
    /\ \A i \in 2 .. Len(snake) : snake[i] # head

====
